---- MODULE Spec2Model ----
(***************************************************************************)
(* A model of the chess rules engine of chess-engine/src/chess.rs: the     *)
(* ChessBoard struct, its move generator (get_valid_moves), its move       *)
(* executor (make_move) and its notation exporter (to_fen).                *)
(***************************************************************************)
EXTENDS Integers, Sequences, FiniteSets, TLC

VARIABLES
    chessboard,           \* the ChessBoard: board, current_player, the six flags, en_passant_target
    pc,                   \* the caller: "idle", or the method that has just returned to it
    chess_move,           \* the argument of the make_move call that has just returned (Option<Move>)
    result,               \* what that call returned
    fen,                  \* the String the to_fen call that has just returned gave (Option)
    valid_moves,          \* the origin and the Vec of the get_valid_moves call that has just returned (Option)
    nmoves,               \* history: number of successful make_move calls so far
    kr_moves              \* history: number of successful King or Rook moves so far

vars == <<chessboard, pc, chess_move, result, fen, valid_moves, nmoves, kr_moves>>

-----------------------------------------------------------------------------
(* Data types                                                              *)

\* Option<T>: None is the empty sequence, Some(x) the one-element sequence.
None == << >>
Some(x) == << x >>

PieceType == {"Pawn", "Rook", "Knight", "Bishop", "Queen", "King"}
Color == {"White", "Black"}

\* Piece::new
Piece(piece_type, color) == [piece_type |-> piece_type, color |-> color]

\* Position { file, rank }
Position(file, rank) == [file |-> file, rank |-> rank]

Coord == 0 .. 7
Positions == {Position(f, r) : f \in Coord, r \in Coord}

\* Move::new
Move(from, to, promotion) == [from |-> from, to |-> to, promotion |-> promotion]

-----------------------------------------------------------------------------
(* Board setup                                                             *)

\* Mutant of back_rank: the King and the Queen have changed places.
back_rank_king_first == <<"Rook", "Knight", "Bishop", "King", "Queen", "Bishop", "Knight", "Rook">>

\* The officers of a back rank, by file.
back_rank == <<"Rook", "Knight", "Bishop", "Queen", "King", "Bishop", "Knight", "Rook">>

\* setup_initial_position: the grid it leaves, indexed [rank][file].
setup_initial_position ==
    [rank \in Coord |-> [file \in Coord |->
        CASE rank = 1 -> Some(Piece("Pawn", "White"))
          [] rank = 6 -> Some(Piece("Pawn", "Black"))
          [] rank = 0 -> Some(Piece(back_rank[file + 1], "White"))
          [] rank = 7 -> Some(Piece(back_rank[file + 1], "Black"))
          [] OTHER -> None]]

\* ChessBoard::new
new == [board |-> setup_initial_position,
        current_player |-> "White",
        white_king_moved |-> FALSE,
        black_king_moved |-> FALSE,
        white_rook_a_moved |-> FALSE,
        white_rook_h_moved |-> FALSE,
        black_rook_a_moved |-> FALSE,
        black_rook_h_moved |-> FALSE,
        en_passant_target |-> None]

\* get_piece
get_piece(cb, position) == cb.board[position.rank][position.file]

-----------------------------------------------------------------------------
(* Move generator                                                          *)

on_board(file, rank) == file >= 0 /\ file <= 7 /\ rank >= 0 /\ rank <= 7

\* Mutant of free_or_enemy: the color of the piece on the square is not looked at.
free_or_enemy_or_own(cb, pos, color) == TRUE

\* The test shared by the knight, king and sliding generators: an empty square
\* or one holding a piece of the other color is a destination.
free_or_enemy(cb, pos, color) ==
    LET target == get_piece(cb, pos)
    IN  IF target # None THEN target[1].color # color ELSE TRUE

\* Mutant of get_pawn_moves: the en-passant target is a capture square too.
get_pawn_moves_en_passant(cb, from, color, moves) ==
    LET direction == IF color = "White" THEN 1 ELSE -1
        start_rank == IF color = "White" THEN 1 ELSE 6
        new_rank == from.rank + direction
        forward_pos == Position(from.file, new_rank)
        double_forward_rank == new_rank + direction
        double_forward_pos == Position(from.file, double_forward_rank)
        forward ==
            IF new_rank >= 0 /\ new_rank <= 7
            THEN IF get_piece(cb, forward_pos) = None
                 THEN <<forward_pos>> \o
                      (IF from.rank = start_rank
                       THEN IF double_forward_rank >= 0 /\ double_forward_rank <= 7
                            THEN IF get_piece(cb, double_forward_pos) = None
                                 THEN <<double_forward_pos>>
                                 ELSE << >>
                            ELSE << >>
                       ELSE << >>)
                 ELSE << >>
            ELSE << >>
        capture(file_offset) ==
            LET new_file == from.file + file_offset
                capture_pos == Position(new_file, new_rank)
            IN  IF on_board(new_file, new_rank)
                THEN IF get_piece(cb, capture_pos) # None
                     THEN IF get_piece(cb, capture_pos)[1].color # color
                          THEN <<capture_pos>>
                          ELSE << >>
                     ELSE IF cb.en_passant_target = Some(capture_pos)
                          THEN <<capture_pos>>
                          ELSE << >>
                ELSE << >>
    IN  moves \o forward \o capture(-1) \o capture(1)

get_pawn_moves(cb, from, color, moves) ==
    LET direction == IF color = "White" THEN 1 ELSE -1
        start_rank == IF color = "White" THEN 1 ELSE 6
        new_rank == from.rank + direction
        forward_pos == Position(from.file, new_rank)
        double_forward_rank == new_rank + direction
        double_forward_pos == Position(from.file, double_forward_rank)
        forward ==
            IF new_rank >= 0 /\ new_rank <= 7
            THEN IF get_piece(cb, forward_pos) = None
                 THEN <<forward_pos>> \o
                      (IF from.rank = start_rank
                       THEN IF double_forward_rank >= 0 /\ double_forward_rank <= 7
                            THEN IF get_piece(cb, double_forward_pos) = None
                                 THEN <<double_forward_pos>>
                                 ELSE << >>
                            ELSE << >>
                       ELSE << >>)
                 ELSE << >>
            ELSE << >>
        capture(file_offset) ==
            LET new_file == from.file + file_offset
                capture_pos == Position(new_file, new_rank)
            IN  IF on_board(new_file, new_rank)
                THEN IF get_piece(cb, capture_pos) # None
                     THEN IF get_piece(cb, capture_pos)[1].color # color
                          THEN <<capture_pos>>
                          ELSE << >>
                     ELSE << >>
                ELSE << >>
    IN  moves \o forward \o capture(-1) \o capture(1)

\* Mutant of sliding_loop: the first occupied square is a destination
\* whatever the color of the piece on it.
RECURSIVE sliding_loop_takes_own(_, _, _, _, _, _, _)
sliding_loop_takes_own(cb, color, file, rank, file_dir, rank_dir, moves) ==
    IF on_board(file, rank)
    THEN LET pos == Position(file, rank)
             target == get_piece(cb, pos)
         IN  IF target # None
             THEN Append(moves, pos)
             ELSE sliding_loop_takes_own(cb, color, file + file_dir, rank + rank_dir,
                                         file_dir, rank_dir, Append(moves, pos))
    ELSE moves

\* The while loop of get_sliding_moves, from the square (file, rank) on.
RECURSIVE sliding_loop(_, _, _, _, _, _, _)
sliding_loop(cb, color, file, rank, file_dir, rank_dir, moves) ==
    IF on_board(file, rank)
    THEN LET pos == Position(file, rank)
             target == get_piece(cb, pos)
         IN  IF target # None
             THEN IF target[1].color # color THEN Append(moves, pos) ELSE moves
             ELSE sliding_loop(cb, color, file + file_dir, rank + rank_dir,
                               file_dir, rank_dir, Append(moves, pos))
    ELSE moves

get_sliding_moves(cb, from, color, file_dir, rank_dir, moves) ==
    sliding_loop(cb, color, from.file + file_dir, from.rank + rank_dir,
                 file_dir, rank_dir, moves)

\* A for loop over a table of directions, each handed to get_sliding_moves.
RECURSIVE slide_all(_, _, _, _, _)
slide_all(cb, from, color, directions, moves) ==
    IF directions = << >>
    THEN moves
    ELSE slide_all(cb, from, color, Tail(directions),
                   get_sliding_moves(cb, from, color, Head(directions)[1],
                                     Head(directions)[2], moves))

rook_directions == << <<0, 1>>, <<0, -1>>, <<1, 0>>, <<-1, 0>> >>
bishop_directions == << <<1, 1>>, <<1, -1>>, <<-1, 1>>, <<-1, -1>> >>

get_rook_moves(cb, from, color, moves) ==
    slide_all(cb, from, color, rook_directions, moves)

get_bishop_moves(cb, from, color, moves) ==
    slide_all(cb, from, color, bishop_directions, moves)

get_queen_moves(cb, from, color, moves) ==
    get_bishop_moves(cb, from, color, get_rook_moves(cb, from, color, moves))

\* The for loop shared by get_knight_moves and get_king_moves.
RECURSIVE offset_loop(_, _, _, _, _)
offset_loop(cb, from, color, offsets, moves) ==
    IF offsets = << >>
    THEN moves
    ELSE LET new_file == from.file + Head(offsets)[1]
             new_rank == from.rank + Head(offsets)[2]
             new_pos == Position(new_file, new_rank)
         IN  offset_loop(cb, from, color, Tail(offsets),
                 IF on_board(new_file, new_rank)
                 THEN IF free_or_enemy(cb, new_pos, color)
                      THEN Append(moves, new_pos)
                      ELSE moves
                 ELSE moves)

knight_moves == << <<2, 1>>, <<2, -1>>, <<-2, 1>>, <<-2, -1>>,
                   <<1, 2>>, <<1, -2>>, <<-1, 2>>, <<-1, -2>> >>

king_moves == << <<1, 0>>, <<-1, 0>>, <<0, 1>>, <<0, -1>>,
                 <<1, 1>>, <<1, -1>>, <<-1, 1>>, <<-1, -1>> >>

get_knight_moves(cb, from, color, moves) ==
    offset_loop(cb, from, color, knight_moves, moves)

\* Mutant of get_king_moves: a king whose moved-flag is false may also go
\* two files to either side.
get_king_moves_castling(cb, from, color, moves) ==
    LET king_moved == IF color = "White" THEN cb.white_king_moved ELSE cb.black_king_moved
    IN  offset_loop(cb, from, color,
                    IF king_moved THEN king_moves
                    ELSE king_moves \o << <<2, 0>>, <<-2, 0>> >>,
                    moves)

get_king_moves(cb, from, color, moves) ==
    offset_loop(cb, from, color, king_moves, moves)

\* Mutant of get_valid_moves: the color of the piece is not compared with
\* current_player.
get_valid_moves_any_color(cb, from) ==
    IF get_piece(cb, from) = None
    THEN << >>
    ELSE LET piece == get_piece(cb, from)[1]
         IN  CASE piece.piece_type = "Pawn" -> get_pawn_moves(cb, from, piece.color, << >>)
               [] piece.piece_type = "Rook" -> get_rook_moves(cb, from, piece.color, << >>)
               [] piece.piece_type = "Knight" -> get_knight_moves(cb, from, piece.color, << >>)
               [] piece.piece_type = "Bishop" -> get_bishop_moves(cb, from, piece.color, << >>)
               [] piece.piece_type = "Queen" -> get_queen_moves(cb, from, piece.color, << >>)
               [] piece.piece_type = "King" -> get_king_moves(cb, from, piece.color, << >>)

get_valid_moves(cb, from) ==
    IF get_piece(cb, from) = None
    THEN << >>
    ELSE LET piece == get_piece(cb, from)[1]
         IN  IF piece.color # cb.current_player
             THEN << >>
             ELSE CASE piece.piece_type = "Pawn" -> get_pawn_moves(cb, from, piece.color, << >>)
                    [] piece.piece_type = "Rook" -> get_rook_moves(cb, from, piece.color, << >>)
                    [] piece.piece_type = "Knight" -> get_knight_moves(cb, from, piece.color, << >>)
                    [] piece.piece_type = "Bishop" -> get_bishop_moves(cb, from, piece.color, << >>)
                    [] piece.piece_type = "Queen" -> get_queen_moves(cb, from, piece.color, << >>)
                    [] piece.piece_type = "King" -> get_king_moves(cb, from, piece.color, << >>)

\* Vec::contains
contains(vec, x) == \E i \in 1 .. Len(vec) : vec[i] = x

-----------------------------------------------------------------------------
(* Move executor                                                           *)

Ok == "Ok(true)"
EmptySource == "No piece at source position"
WrongTurn == "Not your turn"
IllegalDestination == "Invalid move"

\* Mutant of validate: the destination is looked up first.
validate_destination_first(cb, m) ==
    IF ~contains(get_valid_moves(cb, m.from), m.to)
    THEN IllegalDestination
    ELSE IF get_piece(cb, m.from) = None
         THEN EmptySource
         ELSE IF get_piece(cb, m.from)[1].color # cb.current_player
              THEN WrongTurn
              ELSE Ok

\* Mutant of validate: the destination is not looked up at all.
validate_any_destination(cb, m) ==
    IF get_piece(cb, m.from) = None
    THEN EmptySource
    ELSE IF get_piece(cb, m.from)[1].color # cb.current_player
         THEN WrongTurn
         ELSE Ok

\* The three checks make_move runs before it touches the board, in the code's
\* order; Ok when all three pass.
validate(cb, m) ==
    IF get_piece(cb, m.from) = None
    THEN EmptySource
    ELSE IF get_piece(cb, m.from)[1].color # cb.current_player
         THEN WrongTurn
         ELSE IF ~contains(get_valid_moves(cb, m.from), m.to)
              THEN IllegalDestination
              ELSE Ok

\* Mutant of relocate: the origin square is not cleared.
relocate_keeps_source(grid, m, from_piece) ==
    [grid EXCEPT ![m.to.rank][m.to.file] = Some(from_piece)]

\* "Make the move": the two assignments to the grid, in the code's order.
relocate(grid, m, from_piece) ==
    [[grid EXCEPT ![m.to.rank][m.to.file] = Some(from_piece)]
        EXCEPT ![m.from.rank][m.from.file] = None]

\* Mutant of handle_promotion: rank 7 is the promotion rank of both colors.
handle_promotion_rank_7(grid, m, from_piece) ==
    IF m.promotion # None
    THEN IF from_piece.piece_type = "Pawn"
         THEN IF m.to.rank = 7
              THEN [grid EXCEPT ![m.to.rank][m.to.file] =
                        Some(Piece(m.promotion[1], from_piece.color))]
              ELSE grid
         ELSE grid
    ELSE grid

\* "Handle promotion".
handle_promotion(grid, m, from_piece) ==
    IF m.promotion # None
    THEN IF from_piece.piece_type = "Pawn"
         THEN LET promotion_rank == IF from_piece.color = "White" THEN 7 ELSE 0
              IN  IF m.to.rank = promotion_rank
                  THEN [grid EXCEPT ![m.to.rank][m.to.file] =
                            Some(Piece(m.promotion[1], from_piece.color))]
                  ELSE grid
         ELSE grid
    ELSE grid

\* Mutant of update_castling_rights: a King move flips the king-moved flag.
update_castling_rights_flips(cb, m, from_piece) ==
    IF from_piece.piece_type = "King"
    THEN IF from_piece.color = "White"
         THEN [cb EXCEPT !.white_king_moved = ~cb.white_king_moved]
         ELSE [cb EXCEPT !.black_king_moved = ~cb.black_king_moved]
    ELSE IF from_piece.piece_type = "Rook"
         THEN CASE from_piece.color = "White" /\ m.from.file = 0 ->
                       [cb EXCEPT !.white_rook_a_moved = TRUE]
                [] from_piece.color = "White" /\ m.from.file = 7 ->
                       [cb EXCEPT !.white_rook_h_moved = TRUE]
                [] from_piece.color = "Black" /\ m.from.file = 0 ->
                       [cb EXCEPT !.black_rook_a_moved = TRUE]
                [] from_piece.color = "Black" /\ m.from.file = 7 ->
                       [cb EXCEPT !.black_rook_h_moved = TRUE]
                [] OTHER -> cb
         ELSE cb

\* Mutant of update_castling_rights: the a-file and h-file arms are swapped.
update_castling_rights_swapped(cb, m, from_piece) ==
    IF from_piece.piece_type = "King"
    THEN IF from_piece.color = "White"
         THEN [cb EXCEPT !.white_king_moved = TRUE]
         ELSE [cb EXCEPT !.black_king_moved = TRUE]
    ELSE IF from_piece.piece_type = "Rook"
         THEN CASE from_piece.color = "White" /\ m.from.file = 0 ->
                       [cb EXCEPT !.white_rook_h_moved = TRUE]
                [] from_piece.color = "White" /\ m.from.file = 7 ->
                       [cb EXCEPT !.white_rook_a_moved = TRUE]
                [] from_piece.color = "Black" /\ m.from.file = 0 ->
                       [cb EXCEPT !.black_rook_h_moved = TRUE]
                [] from_piece.color = "Black" /\ m.from.file = 7 ->
                       [cb EXCEPT !.black_rook_a_moved = TRUE]
                [] OTHER -> cb
         ELSE cb

\* "Update castling rights".
update_castling_rights(cb, m, from_piece) ==
    IF from_piece.piece_type = "King"
    THEN IF from_piece.color = "White"
         THEN [cb EXCEPT !.white_king_moved = TRUE]
         ELSE [cb EXCEPT !.black_king_moved = TRUE]
    ELSE IF from_piece.piece_type = "Rook"
         THEN CASE from_piece.color = "White" /\ m.from.file = 0 ->
                       [cb EXCEPT !.white_rook_a_moved = TRUE]
                [] from_piece.color = "White" /\ m.from.file = 7 ->
                       [cb EXCEPT !.white_rook_h_moved = TRUE]
                [] from_piece.color = "Black" /\ m.from.file = 0 ->
                       [cb EXCEPT !.black_rook_a_moved = TRUE]
                [] from_piece.color = "Black" /\ m.from.file = 7 ->
                       [cb EXCEPT !.black_rook_h_moved = TRUE]
                [] OTHER -> cb
         ELSE cb

\* Mutant of switch_players: the player is left as it was.
switch_players_stuck(player) == player

\* "Switch players".
switch_players(player) == IF player = "White" THEN "Black" ELSE "White"

\* Mutant of execute: a pawn's two-square advance records the square it passed.
execute_sets_en_passant(cb, m, from_piece) ==
    LET moved == [cb EXCEPT !.board =
                     handle_promotion(relocate(cb.board, m, from_piece), m, from_piece)]
        flagged == update_castling_rights(moved, m, from_piece)
        passed == Position(m.from.file, (m.from.rank + m.to.rank) \div 2)
    IN  [flagged EXCEPT !.current_player = switch_players(flagged.current_player),
                        !.en_passant_target =
                            IF from_piece.piece_type = "Pawn" /\
                               (m.to.rank - m.from.rank) \in {2, -2}
                            THEN Some(passed) ELSE None]

\* make_move past its checks: the move is made, the promotion handled, the
\* castling rights updated and the players switched.
execute(cb, m, from_piece) ==
    LET moved == [cb EXCEPT !.board =
                     handle_promotion(relocate(cb.board, m, from_piece), m, from_piece)]
        flagged == update_castling_rights(moved, m, from_piece)
    IN  [flagged EXCEPT !.current_player = switch_players(flagged.current_player)]

\* Mutant of make_move: the move is made before the destination is checked,
\* and not taken back when the check fails.
make_move_no_rollback(cb, m) ==
    LET checked == validate(cb, m)
    IN  IF checked \in {EmptySource, WrongTurn}
        THEN [result |-> checked, cb |-> cb]
        ELSE [result |-> checked, cb |-> execute(cb, m, get_piece(cb, m.from)[1])]

\* make_move(&mut self, chess_move): the value returned and the struct it leaves.
make_move(cb, m) ==
    LET checked == validate(cb, m)
    IN  IF checked # Ok
        THEN [result |-> checked, cb |-> cb]
        ELSE [result |-> Ok, cb |-> execute(cb, m, get_piece(cb, m.from)[1])]

-----------------------------------------------------------------------------
(* Notation exporter                                                       *)

\* A String is the sequence of its characters.
digits == <<"0", "1", "2", "3", "4", "5", "6", "7", "8", "9">>

\* usize::to_string
RECURSIVE to_string(_)
to_string(n) ==
    IF n < 10 THEN <<digits[n + 1]>> ELSE Append(to_string(n \div 10), digits[(n % 10) + 1])

file_chars == <<"a", "b", "c", "d", "e", "f", "g", "h">>

\* Position::to_algebraic
to_algebraic(position) == <<file_chars[position.file + 1], digits[position.rank + 2]>>

piece_char(piece) ==
    CASE piece.piece_type = "Pawn" /\ piece.color = "White" -> "P"
      [] piece.piece_type = "Pawn" /\ piece.color = "Black" -> "p"
      [] piece.piece_type = "Rook" /\ piece.color = "White" -> "R"
      [] piece.piece_type = "Rook" /\ piece.color = "Black" -> "r"
      [] piece.piece_type = "Knight" /\ piece.color = "White" -> "N"
      [] piece.piece_type = "Knight" /\ piece.color = "Black" -> "n"
      [] piece.piece_type = "Bishop" /\ piece.color = "White" -> "B"
      [] piece.piece_type = "Bishop" /\ piece.color = "Black" -> "b"
      [] piece.piece_type = "Queen" /\ piece.color = "White" -> "Q"
      [] piece.piece_type = "Queen" /\ piece.color = "Black" -> "q"
      [] piece.piece_type = "King" /\ piece.color = "White" -> "K"
      [] piece.piece_type = "King" /\ piece.color = "Black" -> "k"

\* Mutant of fen_file_loop: the count is not set back to 0 after it is pushed.
RECURSIVE fen_file_loop_no_reset(_, _, _, _, _)
fen_file_loop_no_reset(cb, rank, file, empty_count, out) ==
    IF file <= 7
    THEN IF cb.board[rank][file] # None
         THEN fen_file_loop_no_reset(cb, rank, file + 1, empty_count,
                  Append(IF empty_count > 0 THEN out \o to_string(empty_count) ELSE out,
                         piece_char(cb.board[rank][file][1])))
         ELSE fen_file_loop_no_reset(cb, rank, file + 1, empty_count + 1, out)
    ELSE IF empty_count > 0 THEN out \o to_string(empty_count) ELSE out

\* The inner loop of "Board state": the files of one rank from `file` on, and
\* the count flushed after the last file; out is what the rank has pushed so far.
RECURSIVE fen_file_loop(_, _, _, _, _)
fen_file_loop(cb, rank, file, empty_count, out) ==
    IF file <= 7
    THEN IF cb.board[rank][file] # None
         THEN fen_file_loop(cb, rank, file + 1, 0,
                  Append(IF empty_count > 0 THEN out \o to_string(empty_count) ELSE out,
                         piece_char(cb.board[rank][file][1])))
         ELSE fen_file_loop(cb, rank, file + 1, empty_count + 1, out)
    ELSE IF empty_count > 0 THEN out \o to_string(empty_count) ELSE out

\* The outer loop of "Board state": what the ranks from `rank` down to 0 push.
RECURSIVE fen_rank_loop(_, _)
fen_rank_loop(cb, rank) ==
    IF rank >= 0
    THEN fen_file_loop(cb, rank, 0, 0, << >>)
             \o (IF rank > 0 THEN <<"/">> ELSE << >>)
             \o fen_rank_loop(cb, rank - 1)
    ELSE << >>

\* "Active color".
fen_active_color(cb) == IF cb.current_player = "White" THEN "w" ELSE "b"

\* Mutant of fen_castling: the king-moved flags are not read.
fen_castling_rooks_only(cb) ==
    LET k_white == IF ~cb.white_rook_h_moved THEN <<"K">> ELSE << >>
        q_white == IF ~cb.white_rook_a_moved THEN <<"Q">> ELSE << >>
        k_black == IF ~cb.black_rook_h_moved THEN <<"k">> ELSE << >>
        q_black == IF ~cb.black_rook_a_moved THEN <<"q">> ELSE << >>
        castling == k_white \o q_white \o k_black \o q_black
    IN  IF castling = << >> THEN <<"-">> ELSE castling

\* "Castling availability": the local String castling.
fen_castling(cb) ==
    LET k_white == IF ~cb.white_king_moved /\ ~cb.white_rook_h_moved THEN <<"K">> ELSE << >>
        q_white == IF ~cb.white_king_moved /\ ~cb.white_rook_a_moved THEN <<"Q">> ELSE << >>
        k_black == IF ~cb.black_king_moved /\ ~cb.black_rook_h_moved THEN <<"k">> ELSE << >>
        q_black == IF ~cb.black_king_moved /\ ~cb.black_rook_a_moved THEN <<"q">> ELSE << >>
        castling == k_white \o q_white \o k_black \o q_black
    IN  IF castling = << >> THEN <<"-">> ELSE castling

\* "En passant target square".
fen_en_passant(cb) ==
    IF cb.en_passant_target # None
    THEN to_algebraic(cb.en_passant_target[1])
    ELSE <<"-">>

to_fen(cb) ==
    fen_rank_loop(cb, 7)
        \o <<" ", fen_active_color(cb)>>
        \o <<" ">> \o fen_castling(cb)
        \o <<" ">> \o fen_en_passant(cb)
        \o <<" ", "0", " ", "1">>

-----------------------------------------------------------------------------
(* The callers' inputs                                                     *)

\* Most successful calls a run makes.
MaxMoves == 10

\* Option<PieceType>, the promotion argument.
Promotions == {None} \cup {Some(t) : t \in PieceType}

\* The (from, to) pairs the callers submit, as <<file, rank, file, rank>>,
\* in any order and with any promotion; most of them fail most of the time.
\* White: the a-pawn's way to a8; the h-rook's way out over h3, a3 and b3;
\* the a-rook's step to a3; the king's step to e2 behind its pawn; a castling
\* attempt e1-g1. Black: the g-pawn's way to g1, with an en-passant attempt
\* g4-h3; the king's steps between e8 and e7 behind its pawn; the h-rook's way
\* out over h6, a6 and b6.
MovePairs ==
    { <<0, 1, 0, 3>>, <<0, 3, 0, 4>>, <<0, 4, 0, 5>>, <<0, 5, 1, 6>>, <<1, 6, 0, 7>>,
      <<7, 1, 7, 3>>, <<7, 0, 7, 2>>, <<7, 2, 0, 2>>, <<0, 2, 1, 2>>,
      <<0, 0, 0, 2>>,
      <<4, 1, 4, 2>>, <<4, 0, 4, 1>>, <<4, 0, 6, 0>>,
      <<6, 6, 6, 4>>, <<6, 4, 6, 3>>, <<6, 3, 6, 2>>, <<6, 2, 5, 1>>, <<5, 1, 6, 0>>,
      <<6, 3, 7, 2>>,
      <<4, 6, 4, 5>>, <<4, 7, 4, 6>>, <<4, 6, 4, 7>>,
      <<7, 6, 7, 4>>, <<7, 7, 7, 5>>, <<7, 5, 0, 5>>, <<0, 5, 1, 5>> }

Moves ==
    { Move(Position(p[1], p[2]), Position(p[3], p[4]), promotion) :
        p \in MovePairs, promotion \in Promotions }

-----------------------------------------------------------------------------
(* The state machine                                                       *)

Init ==
    /\ chessboard = new
    /\ pc = "idle"
    /\ chess_move = None
    /\ result = "none"
    /\ fen = None
    /\ valid_moves = None
    /\ nmoves = 0
    /\ kr_moves = 0

\* One call of make_move with the argument m, up to its return.
MakeMove(m) ==
    /\ pc = "idle"
    /\ nmoves < MaxMoves
    /\ LET r == make_move(chessboard, m)
       IN  /\ chessboard' = r.cb
           /\ chess_move' = Some(m)
           /\ result' = r.result
           /\ nmoves' = IF r.result = Ok THEN nmoves + 1 ELSE nmoves
           /\ kr_moves' = IF r.result = Ok /\
                              get_piece(chessboard, m.from)[1].piece_type \in {"King", "Rook"}
                           THEN kr_moves + 1 ELSE kr_moves
    /\ pc' = "make_move"
    /\ UNCHANGED <<fen, valid_moves>>

\* One call of to_fen, up to its return; it reads the struct and changes nothing.
ToFen ==
    /\ pc = "idle"
    /\ pc' = "to_fen"
    /\ fen' = Some(to_fen(chessboard))
    /\ UNCHANGED <<chessboard, chess_move, result, valid_moves, nmoves, kr_moves>>

\* One call of get_valid_moves with the argument from, up to its return; it
\* reads the struct and changes nothing.
GetValidMoves(from) ==
    /\ pc = "idle"
    /\ pc' = "get_valid_moves"
    /\ valid_moves' = Some([from |-> from, moves |-> get_valid_moves(chessboard, from)])
    /\ UNCHANGED <<chessboard, chess_move, result, fen, nmoves, kr_moves>>

\* The caller takes the returned value and is ready for its next call.
Return ==
    /\ pc # "idle"
    /\ pc' = "idle"
    /\ chess_move' = None
    /\ result' = "none"
    /\ fen' = None
    /\ valid_moves' = None
    /\ UNCHANGED <<chessboard, nmoves, kr_moves>>

Next ==
    \/ \E m \in Moves : MakeMove(m)
    \/ ToFen
    \/ Return

\* Play from ChessBoard::new().
Spec == Init /\ [][Next]_vars

-----------------------------------------------------------------------------
(* to_fen as a function of the struct it is handed.  The struct derives     *)
(* Deserialize, so a caller can hold a ChessBoard with any combination of   *)
(* field values; to_fen is applied to each of a family of them.             *)

cleared_grid == [rank \in Coord |-> [file \in Coord |-> None]]

\* The grid after 1. h4 g5 2. Rh3: the white h-rook is off its corner.
after_h4 == make_move(new, Move(Position(7, 1), Position(7, 3), None)).cb
after_h4_g5 == make_move(after_h4, Move(Position(6, 6), Position(6, 4), None)).cb
after_h4_g5_Rh3 == make_move(after_h4_g5, Move(Position(7, 0), Position(7, 2), None)).cb

FenGrids == {new.board, cleared_grid, after_h4_g5_Rh3.board}

FenTargets == {None, Some(Position(0, 2)), Some(Position(7, 5))}

FenInputs ==
    [board : FenGrids,
     current_player : Color,
     white_king_moved : BOOLEAN,
     black_king_moved : BOOLEAN,
     white_rook_a_moved : BOOLEAN,
     white_rook_h_moved : BOOLEAN,
     black_rook_a_moved : BOOLEAN,
     black_rook_h_moved : BOOLEAN,
     en_passant_target : FenTargets]

InitFen ==
    /\ chessboard \in FenInputs
    /\ pc = "idle"
    /\ chess_move = None
    /\ result = "none"
    /\ fen = None
    /\ valid_moves = None
    /\ nmoves = 0
    /\ kr_moves = 0

NextFen ==
    \/ ToFen
    \/ Return

SpecFen == InitFen /\ [][NextFen]_vars

-----------------------------------------------------------------------------
(* setup_initial_position, a public method, as a function of the struct it  *)
(* is called on: the structs to_fen is applied to above, and the structs    *)
(* that play leaves after 1. h4, after 1. h4 g5 and after 1. h4 g5 2. Rh3.  *)

\* Mutant of setup_initial_position_on: the struct is built anew.
setup_initial_position_as_new(cb) == new

\* setup_initial_position(&mut self): the struct it leaves.
setup_initial_position_on(cb) == [cb EXCEPT !.board = setup_initial_position]

\* One call of setup_initial_position, up to its return.
SetupInitialPosition ==
    /\ pc = "idle"
    /\ pc' = "setup_initial_position"
    /\ chessboard' = setup_initial_position_on(chessboard)
    /\ UNCHANGED <<chess_move, result, fen, valid_moves, nmoves, kr_moves>>

SetupInputs == FenInputs \cup {after_h4, after_h4_g5, after_h4_g5_Rh3}

InitSetup ==
    /\ chessboard \in SetupInputs
    /\ pc = "idle"
    /\ chess_move = None
    /\ result = "none"
    /\ fen = None
    /\ valid_moves = None
    /\ nmoves = 0
    /\ kr_moves = 0

NextSetup ==
    \/ SetupInitialPosition
    \/ ToFen
    \/ Return

SpecSetup == InitSetup /\ [][NextSetup]_vars

-----------------------------------------------------------------------------
(* get_valid_moves as a function of the struct and the origin it is handed. *)
(* It is applied at each of the 64 origins to a family of structs: a piece  *)
(* of each type and color set on a corner, a centre or a pawn's starting    *)
(* square of an empty grid, of the starting grid and of a grid with pieces  *)
(* of both colors scattered around those squares; either side to move; an   *)
(* en-passant target behind a pawn that has advanced two squares; and, for  *)
(* the grids in which the piece set down is a King, every combination of    *)
(* the six moved-flags.                                                     *)

place(grid, position, piece) ==
    [grid EXCEPT ![position.rank][position.file] = Some(piece)]

RECURSIVE place_all(_, _)
place_all(grid, placements) ==
    IF placements = << >>
    THEN grid
    ELSE place_all(place(grid, Position(Head(placements)[1], Head(placements)[2]),
                         Piece(Head(placements)[3], Head(placements)[4])),
                   Tail(placements))

\* Pieces of both colors around d4, e2 and e7; the a-file, the h-file and
\* the ranks 0 and 7 are empty.
scattered_grid ==
    place_all(cleared_grid,
        << <<3, 5, "Pawn", "Black">>,   <<1, 3, "Rook", "Black">>,
           <<3, 1, "Bishop", "White">>, <<5, 5, "Queen", "White">>,
           <<1, 5, "Knight", "Black">>, <<5, 1, "Bishop", "Black">>,
           <<1, 1, "Pawn", "White">>,   <<4, 3, "Pawn", "White">>,
           <<4, 5, "King", "Black">>,   <<3, 2, "Pawn", "Black">>,
           <<5, 2, "Knight", "White">>, <<6, 3, "Rook", "White">> >>)

MoveEnvironments == {cleared_grid, new.board, scattered_grid}

MoveSquares == {Position(0, 0), Position(3, 3), Position(4, 1), Position(4, 6), Position(7, 7)}

MoveGrids(types) ==
    {place(grid, position, Piece(piece_type, color)) :
        grid \in MoveEnvironments, position \in MoveSquares,
        piece_type \in types, color \in Color}

\* e3, the square the white pawn on e4 of scattered_grid has passed.
MoveTargets == {None, Some(Position(4, 2))}

MoveInputs ==
    [board : MoveGrids(PieceType) \cup {after_h4_g5_Rh3.board},
     current_player : Color,
     white_king_moved : {FALSE},
     black_king_moved : {FALSE},
     white_rook_a_moved : {FALSE},
     white_rook_h_moved : {FALSE},
     black_rook_a_moved : {FALSE},
     black_rook_h_moved : {FALSE},
     en_passant_target : MoveTargets]
    \cup
    [board : MoveGrids({"King"}),
     current_player : Color,
     white_king_moved : BOOLEAN,
     black_king_moved : BOOLEAN,
     white_rook_a_moved : BOOLEAN,
     white_rook_h_moved : BOOLEAN,
     black_rook_a_moved : BOOLEAN,
     black_rook_h_moved : BOOLEAN,
     en_passant_target : {None}]

InitMoves ==
    /\ chessboard \in MoveInputs
    /\ pc = "idle"
    /\ chess_move = None
    /\ result = "none"
    /\ fen = None
    /\ valid_moves = None
    /\ nmoves = 0
    /\ kr_moves = 0

NextMoves ==
    \/ \E from \in Positions : GetValidMoves(from)
    \/ Return

SpecMoves == InitMoves /\ [][NextMoves]_vars

-----------------------------------------------------------------------------
(* Properties                                                              *)

\* A step in which make_move is called and returns; arg is its argument and
\* source the content of the origin square when it was called.
Called == pc = "idle" /\ pc' = "make_move"
arg == chess_move'[1]
source == get_piece(chessboard, arg.from)

Failures == {EmptySource, WrongTurn, IllegalDestination}

\* The k-th field of a String, fields being separated by single spaces.
Field(str, k) ==
    LET spaces == {i \in 1 .. Len(str) : str[i] = " "}
        nth(n) == IF n = 0 THEN 0
                  ELSE IF n > Cardinality(spaces) THEN Len(str) + 1
                  ELSE CHOOSE i \in spaces : Cardinality({j \in spaces : j <= i}) = n
    IN  SubSeq(str, nth(k - 1) + 1, nth(k) - 1)

Range(seq) == {seq[i] : i \in 1 .. Len(seq)}

(* C1: whenever make_move fails, for whichever of the three reasons, the   *)
(* grid, current_player, the six moved-flags and en_passant_target are     *)
(* exactly what they were before the call.                                 *)
C1_FailureLeavesBoard ==
    [][ (Called /\ result' # Ok) =>
            /\ result' \in Failures
            /\ chessboard'.board = chessboard.board
            /\ chessboard'.current_player = chessboard.current_player
            /\ chessboard'.white_king_moved = chessboard.white_king_moved
            /\ chessboard'.black_king_moved = chessboard.black_king_moved
            /\ chessboard'.white_rook_a_moved = chessboard.white_rook_a_moved
            /\ chessboard'.white_rook_h_moved = chessboard.white_rook_h_moved
            /\ chessboard'.black_rook_a_moved = chessboard.black_rook_a_moved
            /\ chessboard'.black_rook_h_moved = chessboard.black_rook_h_moved
            /\ chessboard'.en_passant_target = chessboard.en_passant_target ]_vars

\* A call has failed on its destination, after the generator was consulted.
C1_Witness == pc = "make_move" /\ result = IllegalDestination

(* C2: make_move classifies every call in a fixed precedence: EmptySource   *)
(* iff the origin is empty; otherwise WrongTurn iff the piece there is not  *)
(* of current_player's color; otherwise IllegalDestination iff the          *)
(* destination is not in get_valid_moves(from); otherwise success. Hence it *)
(* succeeds iff the destination is in get_valid_moves(from).                *)
C2_Precedence ==
    [][ Called =>
            LET mine == source # None /\ source[1].color = chessboard.current_player
                reachable == contains(get_valid_moves(chessboard, arg.from), arg.to)
            IN  /\ result' \in Failures \cup {Ok}
                /\ result' = EmptySource <=> source = None
                /\ result' = WrongTurn <=> (source # None /\ ~mine)
                /\ result' = IllegalDestination <=> (mine /\ ~reachable)
                /\ result' = Ok <=> reachable ]_vars

\* A call has failed because the piece at the origin is of the side not to move.
C2_Witness == pc = "make_move" /\ result = WrongTurn

(* C3, as stated: for every Move whose destination is not in               *)
(* get_valid_moves(from), make_move fails with IllegalDestination and       *)
(* leaves the board unchanged, whatever the origin holds.                  *)
C3_AlwaysIllegalDestination ==
    [][ (Called /\ ~contains(get_valid_moves(chessboard, arg.from), arg.to)) =>
            /\ result' = IllegalDestination
            /\ chessboard' = chessboard ]_vars

(* C3, amended: for every Move whose destination is not in                 *)
(* get_valid_moves(from), make_move fails and leaves the board unchanged;   *)
(* the failure is IllegalDestination when the origin holds a piece of the   *)
(* side to move, EmptySource when the origin is empty and WrongTurn when it *)
(* holds a piece of the other side.                                        *)
C3_FailsByOrigin ==
    [][ (Called /\ ~contains(get_valid_moves(chessboard, arg.from), arg.to)) =>
            /\ chessboard' = chessboard
            /\ result' = IF source = None THEN EmptySource
                         ELSE IF source[1].color # chessboard.current_player
                              THEN WrongTurn
                              ELSE IllegalDestination ]_vars

\* A call with an empty origin has failed, and not with IllegalDestination.
C3_Witness ==
    /\ pc = "make_move"
    /\ result = EmptySource
    /\ get_piece(chessboard, chess_move[1].from) = None
    /\ ~contains(get_valid_moves(chessboard, chess_move[1].from), chess_move[1].to)

(* C4: turn order. From ChessBoard::new(), every successful make_move moves *)
(* a piece of current_player's color and then flips current_player, a       *)
(* failed call does not flip it; so the movers alternate White, Black,      *)
(* White, ... and current_player is White exactly when the number of        *)
(* successful moves so far is even.                                        *)
C4_TurnOrder ==
    /\ [](chessboard.current_player = "White" <=> nmoves % 2 = 0)
    /\ [][ Called =>
              IF result' = Ok
              THEN /\ source[1].color = chessboard.current_player
                   /\ source[1].color = IF nmoves % 2 = 0 THEN "White" ELSE "Black"
                   /\ chessboard'.current_player # chessboard.current_player
                   /\ nmoves' = nmoves + 1
              ELSE /\ chessboard'.current_player = chessboard.current_player
                   /\ nmoves' = nmoves ]_vars

\* The fourth successful move has been made, by Black, and White is to move.
C4_Witness ==
    /\ pc = "make_move"
    /\ result = Ok
    /\ nmoves = 4
    /\ get_piece(chessboard, chess_move[1].to)[1].color = "Black"
    /\ chessboard.current_player = "White"

(* C5: a successful make_move changes exactly two squares of the grid: the  *)
(* origin becomes empty and the destination holds the moved piece (or its   *)
(* promotion); the other 62 squares are unchanged. So a king move relocates *)
(* no rook and a pawn's diagonal move removes no piece but the one on its   *)
(* destination.                                                            *)
C5_TwoSquares ==
    [][ (Called /\ result' = Ok) =>
            /\ arg.from # arg.to
            /\ get_piece(chessboard', arg.from) = None
            /\ get_piece(chessboard', arg.to) \in
                   {Some(source[1])} \cup
                   {Some(Piece(arg.promotion[i], source[1].color)) :
                        i \in 1 .. Len(arg.promotion)}
            /\ \A p \in Positions \ {arg.from, arg.to} :
                   get_piece(chessboard', p) = get_piece(chessboard, p) ]_vars

\* A pawn has just moved diagonally (from one file to the next).
C5_Witness ==
    /\ pc = "make_move"
    /\ result = Ok
    /\ chess_move[1].from.file # chess_move[1].to.file
    /\ chess_move[1].promotion = None
    /\ get_piece(chessboard, chess_move[1].to)[1].piece_type = "Pawn"

(* C6: promotion. After a successful move of a Pawn to the far rank of its  *)
(* color (7 for White, 0 for Black) the destination holds a piece of the    *)
(* supplied promotion type and the mover's color when a type is supplied,   *)
(* and still the Pawn when none is. When a type is supplied but the moved   *)
(* piece is no Pawn or the destination is not the far rank, the move        *)
(* succeeds all the same and the destination holds the moved piece.         *)
C6_Promotion ==
    [][ Called =>
            /\ \A promotion \in Promotions :
                   (make_move(chessboard, [arg EXCEPT !.promotion = promotion]).result = Ok)
                       <=> (result' = Ok)
            /\ result' = Ok =>
                   LET far == IF source[1].color = "White" THEN 7 ELSE 0
                   IN  get_piece(chessboard', arg.to) =
                           IF /\ source[1].piece_type = "Pawn"
                              /\ arg.to.rank = far
                              /\ arg.promotion # None
                           THEN Some(Piece(arg.promotion[1], source[1].color))
                           ELSE Some(source[1]) ]_vars

\* A black pawn has reached rank 0 with Knight supplied, and a third black
\* knight stands where it arrived.
C6_Witness ==
    /\ pc = "make_move"
    /\ result = Ok
    /\ chess_move[1].promotion = Some("Knight")
    /\ chess_move[1].to.rank = 0
    /\ get_piece(chessboard, chess_move[1].to) = Some(Piece("Knight", "Black"))
    /\ Cardinality({p \in Positions :
                       get_piece(chessboard, p) = Some(Piece("Knight", "Black"))}) = 3

(* C7, as stated: a rook-moved flag changes from false to true only if the  *)
(* moved piece is a Rook of that color leaving its original corner square   *)
(* (a1, h1, a8, h8); a successful Rook move from any other square leaves    *)
(* all four rook-moved flags unchanged.                                    *)
C7_RookFlagsFromCorner ==
    [][ Called =>
            LET rook_leaves(color, corner) ==
                    /\ result' = Ok
                    /\ source = Some(Piece("Rook", color))
                    /\ arg.from = corner
                corners == {Position(0, 0), Position(7, 0), Position(0, 7), Position(7, 7)}
            IN  /\ (~chessboard.white_rook_a_moved /\ chessboard'.white_rook_a_moved)
                       => rook_leaves("White", Position(0, 0))
                /\ (~chessboard.white_rook_h_moved /\ chessboard'.white_rook_h_moved)
                       => rook_leaves("White", Position(7, 0))
                /\ (~chessboard.black_rook_a_moved /\ chessboard'.black_rook_a_moved)
                       => rook_leaves("Black", Position(0, 7))
                /\ (~chessboard.black_rook_h_moved /\ chessboard'.black_rook_h_moved)
                       => rook_leaves("Black", Position(7, 7))
                /\ (result' = Ok /\ source[1].piece_type = "Rook" /\ arg.from \notin corners)
                       => /\ chessboard'.white_rook_a_moved = chessboard.white_rook_a_moved
                          /\ chessboard'.white_rook_h_moved = chessboard.white_rook_h_moved
                          /\ chessboard'.black_rook_a_moved = chessboard.black_rook_a_moved
                          /\ chessboard'.black_rook_h_moved = chessboard.black_rook_h_moved ]_vars

(* C8: from ChessBoard::new(), after successful moves among which no King   *)
(* and no Rook has moved, one successful move of the White rook standing on *)
(* h1 leaves the castling field of to_fen as exactly "Qkq".                 *)
C8_RookH1ThenQkq ==
    [][ ( /\ Called
          /\ result' = Ok
          /\ kr_moves = 0
          /\ arg.from = Position(7, 0)
          /\ source = Some(Piece("Rook", "White")) )
        => Field(to_fen(chessboard'), 3) = <<"Q", "k", "q">> ]_vars

\* The first King or Rook move of the game was the White rook leaving h1.
C8_Witness ==
    /\ pc = "make_move"
    /\ result = Ok
    /\ kr_moves = 1
    /\ chess_move[1].from = Position(7, 0)
    /\ get_piece(chessboard, chess_move[1].to) = Some(Piece("Rook", "White"))
    /\ Field(to_fen(chessboard), 3) = <<"Q", "k", "q">>

(* C9: for every combination of the six moved-flags, the castling field of  *)
(* to_fen contains K iff white_king_moved and white_rook_h_moved are both   *)
(* false, Q iff white_king_moved and white_rook_a_moved are, k iff          *)
(* black_king_moved and black_rook_h_moved are, q iff black_king_moved and  *)
(* black_rook_a_moved are; the letters present are in the order K, Q, k, q; *)
(* the field is "-" iff none qualifies; and it depends on the flags only,   *)
(* not on what stands on any square.                                       *)
C9_CastlingField ==
    pc = "to_fen" =>
        LET field == Field(fen[1], 3)
            letters == Range(field)
            present(c) == c \in letters
            K == ~chessboard.white_king_moved /\ ~chessboard.white_rook_h_moved
            Q == ~chessboard.white_king_moved /\ ~chessboard.white_rook_a_moved
            k == ~chessboard.black_king_moved /\ ~chessboard.black_rook_h_moved
            q == ~chessboard.black_king_moved /\ ~chessboard.black_rook_a_moved
            flags_only == [chessboard EXCEPT !.board = cleared_grid,
                                             !.current_player = "White",
                                             !.en_passant_target = None]
        IN  /\ "K" \in letters <=> K
            /\ "Q" \in letters <=> Q
            /\ "k" \in letters <=> k
            /\ "q" \in letters <=> q
            /\ field = <<"-">> <=> ~(K \/ Q \/ k \/ q)
            /\ field # <<"-">> => field = SelectSeq(<<"K", "Q", "k", "q">>, present)
            /\ field = Field(to_fen(flags_only), 3)

\* to_fen has returned for a struct whose pieces all stand on their first
\* squares, whose white king and black a-rook flags are set: the field is "k".
C9_Witness ==
    /\ pc = "to_fen"
    /\ chessboard.board = new.board
    /\ chessboard.white_king_moved
    /\ ~chessboard.black_king_moved
    /\ chessboard.black_rook_a_moved
    /\ ~chessboard.black_rook_h_moved
    /\ Field(fen[1], 3) = <<"k">>

(* C10: in every state reached from ChessBoard::new() by make_move calls,   *)
(* also after a pawn's two-square advance, en_passant_target is empty, and  *)
(* the en-passant field of to_fen is "-".                                   *)
C10_NoEnPassantTarget ==
    /\ chessboard.en_passant_target = None
    /\ pc = "to_fen" => Field(fen[1], 4) = <<"-">>

\* A pawn has just advanced two squares.
C10_Witness ==
    /\ pc = "make_move"
    /\ result = Ok
    /\ get_piece(chessboard, chess_move[1].to)[1].piece_type = "Pawn"
    /\ chess_move[1].from.file = chess_move[1].to.file
    /\ (chess_move[1].to.rank - chess_move[1].from.rank) \in {2, -2}
    /\ chessboard.en_passant_target = None

(* C11: ChessBoard::new() yields the standard starting position: White      *)
(* pawns on rank 1, Black pawns on rank 6, the back ranks R N B Q K B N R   *)
(* on files 0..7, ranks 2..5 empty, current_player White, all six flags     *)
(* false, no en-passant target; and to_fen on it is exactly                 *)
(* "rnbqkbnr/pppppppp/8/8/8/8/PPPPPPPP/RNBQKBNR w KQkq - 0 1".              *)
StartFen ==
    <<"r", "n", "b", "q", "k", "b", "n", "r">> \o <<"/">> \o
    <<"p", "p", "p", "p", "p", "p", "p", "p">> \o <<"/">> \o
    <<"8">> \o <<"/">> \o
    <<"8">> \o <<"/">> \o
    <<"8">> \o <<"/">> \o
    <<"8">> \o <<"/">> \o
    <<"P", "P", "P", "P", "P", "P", "P", "P">> \o <<"/">> \o
    <<"R", "N", "B", "Q", "K", "B", "N", "R">> \o
    <<" ", "w", " ", "K", "Q", "k", "q", " ", "-", " ", "0", " ", "1">>

C11_StartingPosition ==
    nmoves = 0 =>
        LET at(file, rank) == chessboard.board[rank][file]
            officers == [file \in Coord |->
                            CASE file \in {0, 7} -> "Rook"
                              [] file \in {1, 6} -> "Knight"
                              [] file \in {2, 5} -> "Bishop"
                              [] file = 3 -> "Queen"
                              [] file = 4 -> "King"]
        IN  /\ \A file \in Coord :
                   /\ at(file, 0) = Some(Piece(officers[file], "White"))
                   /\ at(file, 1) = Some(Piece("Pawn", "White"))
                   /\ \A rank \in 2 .. 5 : at(file, rank) = None
                   /\ at(file, 6) = Some(Piece("Pawn", "Black"))
                   /\ at(file, 7) = Some(Piece(officers[file], "Black"))
            /\ chessboard.current_player = "White"
            /\ ~chessboard.white_king_moved /\ ~chessboard.black_king_moved
            /\ ~chessboard.white_rook_a_moved /\ ~chessboard.white_rook_h_moved
            /\ ~chessboard.black_rook_a_moved /\ ~chessboard.black_rook_h_moved
            /\ chessboard.en_passant_target = None
            /\ pc = "to_fen" => fen = Some(StartFen)

\* to_fen has returned for the board ChessBoard::new() built, before any move.
C11_Witness ==
    /\ pc = "to_fen"
    /\ nmoves = 0
    /\ chessboard = new
    /\ Len(fen[1]) = 56
    /\ Field(fen[1], 1) = SubSeq(StartFen, 1, 43)

(* C12: get_valid_moves(from) is the empty sequence whenever the origin     *)
(* square is empty or holds a piece whose color is not current_player; so   *)
(* right after a successful make_move, get_valid_moves on the square the    *)
(* piece moved to is empty, and every piece of the side that has just moved *)
(* has no destinations as long as the other side is to move.               *)
C12_NoMovesOffTurn ==
    /\ [](\A p \in Positions :
              (\/ get_piece(chessboard, p) = None
               \/ get_piece(chessboard, p)[1].color # chessboard.current_player)
                  => get_valid_moves(chessboard, p) = << >>)
    /\ [][ (Called /\ result' = Ok) =>
              /\ get_valid_moves(chessboard', arg.to) = << >>
              /\ \A p \in Positions :
                     (/\ get_piece(chessboard', p) # None
                      /\ get_piece(chessboard', p)[1].color = source[1].color)
                         => get_valid_moves(chessboard', p) = << >> ]_vars

\* A piece has just moved to a square it could move on from if its side were
\* to move again, and get_valid_moves gives it no destination.
C12_Witness ==
    /\ pc = "make_move"
    /\ result = Ok
    /\ get_valid_moves(chessboard, chess_move[1].to) = << >>
    /\ get_valid_moves([chessboard EXCEPT !.current_player =
                            get_piece(chessboard, chess_move[1].to)[1].color],
                       chess_move[1].to) # << >>

\* What the get_valid_moves call that has just returned was asked and gave.
origin == valid_moves[1].from
destinations == valid_moves[1].moves
subject == get_piece(chessboard, origin)

\* get_valid_moves has returned for an origin holding a piece of the side to
\* move, of one of the given types.
Generated(types) ==
    /\ pc = "get_valid_moves"
    /\ subject # None
    /\ subject[1].color = chessboard.current_player
    /\ subject[1].piece_type \in types

empty_at(file, rank) == chessboard.board[rank][file] = None
enemy_at(file, rank, color) ==
    /\ chessboard.board[rank][file] # None
    /\ chessboard.board[rank][file][1].color # color

NoRepeats(seq) == Cardinality(Range(seq)) = Len(seq)

(* C13: for a Pawn of the side to move, get_valid_moves is exactly: the     *)
(* square one rank forward (toward rank 7 for White, rank 0 for Black) if   *)
(* it is on the board and empty; the square two ranks forward only if the   *)
(* pawn is on its starting rank (1 for White, 6 for Black) and both forward *)
(* squares are empty; each of the two forward-diagonal squares only if it   *)
(* is on the board and holds an enemy piece. So a pawn off its starting     *)
(* rank has at most one forward destination and a diagonal destination is   *)
(* never an empty square.                                                  *)
C13_PawnMoves ==
    Generated({"Pawn"}) =>
        LET color == subject[1].color
            forward == IF color = "White" THEN 1 ELSE -1
            start == IF color = "White" THEN 1 ELSE 6
            file == origin.file
            rank == origin.rank
            one_step == {Position(file, rank + forward) : x \in
                            {x \in {0} : /\ on_board(file, rank + forward)
                                         /\ empty_at(file, rank + forward)}}
            two_steps == {Position(file, rank + 2 * forward) : x \in
                            {x \in {0} : /\ rank = start
                                         /\ empty_at(file, rank + forward)
                                         /\ empty_at(file, rank + 2 * forward)}}
            diagonal == {Position(f, rank + forward) : f \in
                            {f \in {file - 1, file + 1} :
                                 /\ on_board(f, rank + forward)
                                 /\ enemy_at(f, rank + forward, color)}}
            straight == {d \in Range(destinations) : d.file = file}
        IN  /\ Range(destinations) = one_step \cup two_steps \cup diagonal
            /\ NoRepeats(destinations)
            /\ rank # start => Cardinality(straight) <= 1
            /\ \A d \in Range(destinations) :
                   d.file # file => ~empty_at(d.file, d.rank)

\* A black pawn on d4, blocked by its own pawn on d3, with a white pawn beside
\* it on e4 and the en-passant target on e3 behind that pawn: no destination.
C13_Witness ==
    /\ Generated({"Pawn"})
    /\ origin = Position(3, 3)
    /\ subject[1].color = "Black"
    /\ get_piece(chessboard, Position(4, 3)) = Some(Piece("Pawn", "White"))
    /\ chessboard.en_passant_target = Some(Position(4, 2))
    /\ empty_at(4, 2)
    /\ destinations = << >>

\* The squares of the ray from the origin in the direction (file_dir,
\* rank_dir) that the claim C14 counts as destinations of a piece of `color`.
Ray(file_dir, rank_dir, color) ==
    LET file(k) == origin.file + k * file_dir
        rank(k) == origin.rank + k * rank_dir
    IN  {Position(file(k), rank(k)) : k \in
            {k \in 1 .. 7 :
                /\ on_board(file(k), rank(k))
                /\ \A j \in 1 .. k - 1 : empty_at(file(j), rank(j))
                /\ (empty_at(file(k), rank(k)) \/ enemy_at(file(k), rank(k), color))}}

Rays(directions, color) == UNION {Ray(d[1], d[2], color) : d \in directions}

Orthogonals == {<<0, 1>>, <<0, -1>>, <<1, 0>>, <<-1, 0>>}
Diagonals == {<<1, 1>>, <<1, -1>>, <<-1, 1>>, <<-1, -1>>}

(* C14: for a Rook (four orthogonal directions), a Bishop (four diagonal    *)
(* directions) or a Queen (all eight, the union of the Rook and the Bishop  *)
(* results from the same origin) of the side to move, get_valid_moves       *)
(* holds, along each ray, every empty square up to but excluding the first  *)
(* occupied square, plus that square iff it holds an enemy piece, and       *)
(* nothing beyond it; an unobstructed ray runs to the board edge. A rook in *)
(* a corner of an otherwise empty rank and file has exactly 14 destinations.*)
C14_SlidingMoves ==
    Generated({"Rook", "Bishop", "Queen"}) =>
        LET color == subject[1].color
            kind == subject[1].piece_type
            as(piece_type) ==
                get_valid_moves([chessboard EXCEPT !.board =
                                    place(chessboard.board, origin, Piece(piece_type, color))],
                                origin)
            corner == origin.file \in {0, 7} /\ origin.rank \in {0, 7}
            alone == /\ \A f \in Coord \ {origin.file} : empty_at(f, origin.rank)
                     /\ \A r \in Coord \ {origin.rank} : empty_at(origin.file, r)
        IN  /\ NoRepeats(destinations)
            /\ kind = "Rook" => Range(destinations) = Rays(Orthogonals, color)
            /\ kind = "Bishop" => Range(destinations) = Rays(Diagonals, color)
            /\ kind = "Queen" =>
                   /\ Range(destinations) = Rays(Orthogonals \cup Diagonals, color)
                   /\ Range(destinations) = Range(as("Rook")) \cup Range(as("Bishop"))
            /\ (kind = "Rook" /\ corner /\ alone) => Len(destinations) = 14

\* A white queen on d4 among pieces of both colors: it takes the black pawn
\* on d3, the black rook on b4 and the black knight on b6 but does not go on
\* to a7, and stops before its own pawn on e4 and its own queen on f6.
C14_Witness ==
    /\ Generated({"Queen"})
    /\ chessboard.board = place(scattered_grid, Position(3, 3), Piece("Queen", "White"))
    /\ origin = Position(3, 3)
    /\ Position(3, 2) \in Range(destinations)
    /\ Position(1, 3) \in Range(destinations)
    /\ Position(4, 3) \notin Range(destinations)
    /\ Position(5, 5) \notin Range(destinations)
    /\ Position(4, 4) \in Range(destinations)
    /\ Position(1, 5) \in Range(destinations)
    /\ Position(0, 6) \notin Range(destinations)

\* The squares at the given offsets from the origin that are on the board and
\* are empty or hold a piece of the other color.
Steps(offsets, color) ==
    {Position(origin.file + o[1], origin.rank + o[2]) : o \in
        {o \in offsets :
            /\ on_board(origin.file + o[1], origin.rank + o[2])
            /\ \/ empty_at(origin.file + o[1], origin.rank + o[2])
               \/ enemy_at(origin.file + o[1], origin.rank + o[2], color)}}

Abs(n) == IF n < 0 THEN -n ELSE n

(* C15: for a Knight or a King of the side to move, get_valid_moves is      *)
(* exactly the set of squares at the eight knight offsets ((+/-1, +/-2),    *)
(* (+/-2, +/-1)), respectively the eight unit offsets, that are on the      *)
(* board and are empty or hold an enemy piece. For every value of the       *)
(* moved-flags every King destination differs from the origin by at most    *)
(* one file and one rank: no castling destination is generated.             *)
C15_KnightAndKingMoves ==
    Generated({"Knight", "King"}) =>
        LET color == subject[1].color
            leaps == {o \in (-2 .. 2) \X (-2 .. 2) : Abs(o[1]) + Abs(o[2]) = 3}
            units == ((-1 .. 1) \X (-1 .. 1)) \ {<<0, 0>>}
        IN  /\ NoRepeats(destinations)
            /\ subject[1].piece_type = "Knight" =>
                   Range(destinations) = Steps(leaps, color)
            /\ subject[1].piece_type = "King" =>
                   /\ Range(destinations) = Steps(units, color)
                   /\ \A d \in Range(destinations) :
                          /\ Abs(d.file - origin.file) <= 1
                          /\ Abs(d.rank - origin.rank) <= 1

\* A white king that has not moved, on e2 of an otherwise empty grid with no
\* rook flag set either: eight destinations, none of them two files away.
C15_Witness ==
    /\ Generated({"King"})
    /\ chessboard.board = place(cleared_grid, Position(4, 1), Piece("King", "White"))
    /\ origin = Position(4, 1)
    /\ ~chessboard.white_king_moved
    /\ ~chessboard.white_rook_a_moved
    /\ ~chessboard.white_rook_h_moved
    /\ Len(destinations) = 8
    /\ Position(6, 1) \notin Range(destinations)

\* The k-th group of a piece-placement field, groups being separated by "/".
Group(str, k) ==
    LET bars == {i \in 1 .. Len(str) : str[i] = "/"}
        nth(n) == IF n = 0 THEN 0
                  ELSE IF n > Cardinality(bars) THEN Len(str) + 1
                  ELSE CHOOSE i \in bars : Cardinality({j \in bars : j <= i}) = n
    IN  SubSeq(str, nth(k - 1) + 1, nth(k) - 1)

RunDigits == <<"1", "2", "3", "4", "5", "6", "7", "8">>

PieceLetters ==
    [P |-> Piece("Pawn", "White"),   p |-> Piece("Pawn", "Black"),
     R |-> Piece("Rook", "White"),   r |-> Piece("Rook", "Black"),
     N |-> Piece("Knight", "White"), n |-> Piece("Knight", "Black"),
     B |-> Piece("Bishop", "White"), b |-> Piece("Bishop", "Black"),
     Q |-> Piece("Queen", "White"),  q |-> Piece("Queen", "Black"),
     K |-> Piece("King", "White"),   k |-> Piece("King", "Black")]

\* The squares a rank group stands for, file 0 first: a digit is that many
\* empty squares, a letter one piece.
RECURSIVE Decode(_)
Decode(group) ==
    IF group = << >>
    THEN << >>
    ELSE IF Head(group) \in Range(RunDigits)
         THEN [i \in 1 .. (CHOOSE n \in 1 .. 8 : RunDigits[n] = Head(group)) |-> None]
                  \o Decode(Tail(group))
         ELSE <<Some(PieceLetters[Head(group)])>> \o Decode(Tail(group))

(* C16: the piece-placement field of to_fen is a faithful encoding of the   *)
(* grid: 8 rank groups separated by 7 "/" characters, from rank 7 down to   *)
(* rank 0 with the files 0..7 left to right; each maximal run of empty      *)
(* squares of a rank is one digit 1..8, never two digits in a row; each     *)
(* occupied square is one letter of P R N B Q K, uppercase for White and    *)
(* lowercase for Black; and decoding the field gives back exactly the grid. *)
C16_PlacementField ==
    pc = "to_fen" =>
        LET field == Field(fen[1], 1)
        IN  /\ Cardinality({i \in 1 .. Len(field) : field[i] = "/"}) = 7
            /\ \A i \in 1 .. Len(field) :
                   field[i] \in {"/"} \cup Range(RunDigits) \cup DOMAIN PieceLetters
            /\ \A i \in 1 .. Len(field) - 1 :
                   ~(field[i] \in Range(RunDigits) /\ field[i + 1] \in Range(RunDigits))
            /\ \A g \in 1 .. 8 :
                   LET squares == Decode(Group(field, g))
                   IN  /\ Len(squares) = 8
                       /\ \A file \in Coord :
                              squares[file + 1] = chessboard.board[8 - g][file]

\* to_fen has returned for a board whose rank 2 holds the white a-rook on a3
\* and a white pawn on e3, with two runs of three empty squares: "R3P3".
C16_Witness ==
    /\ pc = "to_fen"
    /\ Group(Field(fen[1], 1), 6) = <<"R", "3", "P", "3">>
    /\ get_piece(chessboard, Position(0, 2)) = Some(Piece("Rook", "White"))
    /\ get_piece(chessboard, Position(4, 2)) = Some(Piece("Pawn", "White"))

\* The number of pieces of a type and color on the grid of the struct cb.
Count(cb, piece_types, color) ==
    Cardinality({p \in Positions :
                    /\ get_piece(cb, p) # None
                    /\ get_piece(cb, p)[1].color = color
                    /\ get_piece(cb, p)[1].piece_type \in piece_types})

(* C17, as stated: in every board reached from ChessBoard::new() by         *)
(* make_move calls, with any promotion choices, each color has at most one  *)
(* King on the board.                                                      *)
C17_AtMostOneKing ==
    \A color \in Color : Count(chessboard, {"King"}, color) <= 1

(* C18: piece conservation. get_valid_moves never contains a square held by *)
(* a piece of the mover's own color, so a successful make_move removes no   *)
(* piece of the mover's color: it leaves the mover's piece count unchanged  *)
(* and lowers the opponent's by exactly one when the destination was        *)
(* occupied and by zero otherwise. From ChessBoard::new() each side has at  *)
(* most 16 pieces and the total never increases. (The boards are looked at  *)
(* between the calls: every board a call leaves is the board of the next    *)
(* idle state.)                                                            *)
C18_PieceConservation ==
    /\ [](pc = "idle" =>
              \A p \in Positions : \A d \in Range(get_valid_moves(chessboard, p)) :
                  \/ get_piece(chessboard, d) = None
                  \/ get_piece(chessboard, d)[1].color # get_piece(chessboard, p)[1].color)
    /\ [](pc = "idle" => \A color \in Color : Count(chessboard, PieceType, color) <= 16)
    /\ [][ chessboard' # chessboard =>
              LET mover == source[1].color
                  opponent == switch_players(mover)
                  taken == IF get_piece(chessboard, arg.to) # None THEN 1 ELSE 0
                  white == Count(chessboard, PieceType, "White")
                  black == Count(chessboard, PieceType, "Black")
                  white_after == Count(chessboard', PieceType, "White")
                  black_after == Count(chessboard', PieceType, "Black")
              IN  /\ Called /\ result' = Ok
                  /\ white_after + black_after <= white + black
                  /\ white_after = white - (IF mover = "White" THEN 0 ELSE taken)
                  /\ black_after = black - (IF mover = "Black" THEN 0 ELSE taken) ]_vars
    /\ [][ (Called /\ result' = Ok) => chessboard' # chessboard ]_vars

\* A white piece has just taken the second black piece of the game: White
\* still has 16 pieces and Black 14.
C18_Witness ==
    /\ pc = "make_move"
    /\ result = Ok
    /\ get_piece(chessboard, chess_move[1].to)[1].color = "White"
    /\ Count(chessboard, PieceType, "White") = 16
    /\ Count(chessboard, PieceType, "Black") = 14

\* The letters of the castling field of to_fen for the struct cb.
CastlingLetters(cb) == Range(Field(to_fen(cb), 3)) \ {"-"}

(* C19: the six moved-flags are monotone: across make_move calls, failed or *)
(* successful, a flag that is true never becomes false again; a successful  *)
(* King move makes that color's king-moved flag true; so a letter that has  *)
(* gone from the castling field of to_fen never comes back.                 *)
C19_FlagsMonotone ==
    [][ /\ chessboard.white_king_moved => chessboard'.white_king_moved
        /\ chessboard.black_king_moved => chessboard'.black_king_moved
        /\ chessboard.white_rook_a_moved => chessboard'.white_rook_a_moved
        /\ chessboard.white_rook_h_moved => chessboard'.white_rook_h_moved
        /\ chessboard.black_rook_a_moved => chessboard'.black_rook_a_moved
        /\ chessboard.black_rook_h_moved => chessboard'.black_rook_h_moved
        /\ (Called /\ result' = Ok /\ source[1].piece_type = "King") =>
               IF source[1].color = "White"
               THEN chessboard'.white_king_moved
               ELSE chessboard'.black_king_moved
        /\ chessboard' # chessboard =>
               CastlingLetters(chessboard') \subseteq CastlingLetters(chessboard) ]_vars

\* The black king has just gone back to e8, its second move at least: its
\* flag is still set and the castling field is still "KQ".
C19_Witness ==
    /\ pc = "make_move"
    /\ result = Ok
    /\ chess_move[1].from = Position(4, 6)
    /\ chess_move[1].to = Position(4, 7)
    /\ get_piece(chessboard, Position(4, 7)) = Some(Piece("King", "Black"))
    /\ chessboard.black_king_moved
    /\ Field(to_fen(chessboard), 3) = <<"K", "Q">>

(* C20: setup_initial_position, called on a board in any state, replaces    *)
(* the whole grid by the standard starting layout and leaves                *)
(* current_player, the six moved-flags and en_passant_target as they were;  *)
(* so after it is called on a board on which moves have been made, the grid *)
(* is the initial layout while current_player may be Black and castling     *)
(* letters may be missing: the result need not equal ChessBoard::new().     *)
C20_SetupKeepsTheRest ==
    [][ (pc = "idle" /\ pc' = "setup_initial_position") =>
        LET before == to_fen(chessboard)
            after == to_fen(chessboard')
        IN  /\ chessboard'.board = new.board
            /\ Field(after, 1) = SubSeq(StartFen, 1, 43)
            /\ chessboard'.current_player = chessboard.current_player
            /\ chessboard'.white_king_moved = chessboard.white_king_moved
            /\ chessboard'.black_king_moved = chessboard.black_king_moved
            /\ chessboard'.white_rook_a_moved = chessboard.white_rook_a_moved
            /\ chessboard'.white_rook_h_moved = chessboard.white_rook_h_moved
            /\ chessboard'.black_rook_a_moved = chessboard.black_rook_a_moved
            /\ chessboard'.black_rook_h_moved = chessboard.black_rook_h_moved
            /\ chessboard'.en_passant_target = chessboard.en_passant_target
            /\ Field(after, 2) = Field(before, 2)
            /\ Field(after, 3) = Field(before, 3)
            /\ Field(after, 4) = Field(before, 4) ]_vars

\* setup_initial_position has returned for the struct play left after
\* 1. h4 g5 2. Rh3: the initial layout with Black to move and no K.
C20_Witness ==
    /\ pc = "setup_initial_position"
    /\ chessboard = [after_h4_g5_Rh3 EXCEPT !.board = new.board]
    /\ chessboard.current_player = "Black"
    /\ chessboard.white_rook_h_moved
    /\ chessboard # new
    /\ to_fen(chessboard) = SubSeq(StartFen, 1, 43) \o
           <<" ", "b", " ", "Q", "k", "q", " ", "-", " ", "0", " ", "1">>

====
